---- MODULE Spec2Model ----
(***************************************************************************)
(* Model of ImprovedTimetableScheduler (src/sheduler.py): the schedule     *)
(* state, the feasibility oracle, the greedy constructor, the repair       *)
(* engine, the validation pass, the backtracking fallback and the          *)
(* orchestration generate_timetable_iterative.                             *)
(*                                                                         *)
(* Every call of random.random() / random.shuffle() is a nondeterministic  *)
(* choice over the orders the perturbed sort keys can produce.             *)
(***************************************************************************)
EXTENDS Integers, Sequences, FiniteSets, TLC

(***************************************************************************)
(* Bounds of the model.  The program's roster (6 teachers, 6 subjects,     *)
(* 3 classrooms, 5 days of 6 periods) is scaled down; the configuration    *)
(* of one run is drawn in Init from the sets these bounds span.            *)
(***************************************************************************)
NumTeachers == 3
NumClassrooms == 2
NumSubjects == 2
MaxDays == 2
MaxPeriods == 3
MaxCells == 4
MaxQuota == 2
MaxDemand == 3
MaxDailyLoad == 2
MaxConsecutive == 2
\* the repair engine's outer attempts per unresolved unit (100 in the program)
max_swap_attempts == 2

\* hill_climb_timetable's max_iterations (1000 by default, 10000 in the call)
max_iterations == 3

\* program constants
max_attempts == 5
DonorPrefix == 20

None == 0
EmptyCell == <<>>

AllTeachers == 1..NumTeachers
AllClassrooms == 1..NumClassrooms
subjects == 1..NumSubjects

VARIABLES
    days,                \* self.days
    periods_per_day,     \* self.periods_per_day
    teachers,            \* self.teachers
    classrooms,          \* self.classrooms
    subject_periods,     \* self.subject_periods: quota per subject
    max_daily_load,      \* self.max_daily_load
    allow_adjacent,      \* self.allow_adjacent
    max_consecutive,     \* self.max_consecutive
    teacher_schedule,    \* [teacher][day][period] = classroom or None
    timetables,          \* [classroom][day][period] = <<teacher, subject>> or EmptyCell
    subject_counts,      \* [classroom][subject]
    teacher_daily_load,  \* [teacher][day]
    pc,                  \* position in generate_timetable_iterative
    attempt,             \* loop variable of generate_timetable_iterative
    pending,             \* all_assignments not yet processed, per (classroom, subject)
    unassigned,          \* the greedy constructor's unassigned list
    rCopy,               \* unassigned[:] iterated by resolve_unassigned_with_swapping
    rIdx,                \* position in rCopy
    rAttempt,            \* loop variable attempt of the repair engine
    rCands,              \* swap_candidates of the current outer attempt
    rTried,              \* donors already taken from the shuffled prefix
    lastRelocate,        \* outcome of the last try_relocate_assignment call
    visited,             \* slots the backtracking solver has visited
    result,              \* return value of generate_timetable_iterative
    current_timetable,   \* hill_climb_timetable: [day][period] = teacher
    current_cost,        \* hill_climb_timetable: cost of the accepted timetable
    iteration            \* hill_climb_timetable: loop variable i

cfgvars == <<teachers, classrooms, days, periods_per_day, subject_periods,
             max_daily_load, allow_adjacent, max_consecutive>>
grids == <<teacher_schedule, timetables, subject_counts, teacher_daily_load>>
ctl == <<pc, attempt, pending, unassigned, rCopy, rIdx, rAttempt, rCands, rTried,
         lastRelocate, visited, result>>
hcvars == <<current_timetable, current_cost, iteration>>
vars == <<cfgvars, grids, ctl, hcvars>>

\* hill_climb_timetable is not running: its locals do not exist
HillClimbIdle ==
    /\ current_timetable = <<>>
    /\ current_cost = 0
    /\ iteration = 0

Days == 0..(days - 1)
Periods == 0..(periods_per_day - 1)

\* The four mutable structures as one value, threaded through the operations.
St == [ts |-> teacher_schedule, tt |-> timetables,
       sc |-> subject_counts, dl |-> teacher_daily_load]

----------------------------------------------------------------------------
(* Schedule state *)

reset_data_structures ==
    [ts |-> [t \in teachers |-> [d \in Days |-> [p \in Periods |-> None]]],
     tt |-> [c \in classrooms |-> [d \in Days |-> [p \in Periods |-> EmptyCell]]],
     sc |-> [c \in classrooms |-> [s \in subjects |-> 0]],
     dl |-> [t \in teachers |-> [d \in Days |-> 0]]]

\* mutant: the assignment forgets to count the subject
assign_teacher_to_slot_NoCount(st, teacher, classroom, day, period, subject) ==
    [ts |-> [st.ts EXCEPT ![teacher][day][period] = classroom],
     tt |-> [st.tt EXCEPT ![classroom][day][period] = <<teacher, subject>>],
     sc |-> st.sc,
     dl |-> [st.dl EXCEPT ![teacher][day] = @ + 1]]

assign_teacher_to_slot(st, teacher, classroom, day, period, subject) ==
    [ts |-> [st.ts EXCEPT ![teacher][day][period] = classroom],
     tt |-> [st.tt EXCEPT ![classroom][day][period] = <<teacher, subject>>],
     sc |-> [st.sc EXCEPT ![classroom][subject] = @ + 1],
     dl |-> [st.dl EXCEPT ![teacher][day] = @ + 1]]

\* mutant: the removal forgets to decrement the teacher's daily load
remove_teacher_from_slot_KeepsLoad(st, teacher, classroom, day, period, subject) ==
    [ts |-> [st.ts EXCEPT ![teacher][day][period] = None],
     tt |-> [st.tt EXCEPT ![classroom][day][period] = EmptyCell],
     sc |-> [st.sc EXCEPT ![classroom][subject] = @ - 1],
     dl |-> st.dl]

\* mutant: the removal forgets to decrement the subject count
remove_teacher_from_slot_KeepsCount(st, teacher, classroom, day, period, subject) ==
    [ts |-> [st.ts EXCEPT ![teacher][day][period] = None],
     tt |-> [st.tt EXCEPT ![classroom][day][period] = EmptyCell],
     sc |-> st.sc,
     dl |-> [st.dl EXCEPT ![teacher][day] = @ - 1]]

remove_teacher_from_slot(st, teacher, classroom, day, period, subject) ==
    [ts |-> [st.ts EXCEPT ![teacher][day][period] = None],
     tt |-> [st.tt EXCEPT ![classroom][day][period] = EmptyCell],
     sc |-> [st.sc EXCEPT ![classroom][subject] = @ - 1],
     dl |-> [st.dl EXCEPT ![teacher][day] = @ - 1]]

----------------------------------------------------------------------------
(* Feasibility oracle *)

RECURSIVE CountBack(_, _, _, _)
CountBack(st, teacher, day, p) ==
    IF p >= 0 /\ st.ts[teacher][day][p] # None
    THEN 1 + CountBack(st, teacher, day, p - 1)
    ELSE 0

RECURSIVE CountFwd(_, _, _, _)
CountFwd(st, teacher, day, p) ==
    IF p < periods_per_day /\ st.ts[teacher][day][p] # None
    THEN 1 + CountFwd(st, teacher, day, p + 1)
    ELSE 0

\* mutant: the backward scan is missing
count_consecutive_periods_ForwardOnly(st, teacher, day, period) ==
    1 + CountFwd(st, teacher, day, period + 1)

count_consecutive_periods(st, teacher, day, period) ==
    1 + CountBack(st, teacher, day, period - 1) + CountFwd(st, teacher, day, period + 1)

\* mutant: strict mode looks at the previous period only
ConsecutiveOk_StrictIgnoresNext(st, teacher, day, period) ==
    IF ~allow_adjacent
    THEN IF period > 0 /\ st.ts[teacher][day][period - 1] # None THEN FALSE
         ELSE TRUE
    ELSE IF count_consecutive_periods(st, teacher, day, period) > max_consecutive
         THEN FALSE
         ELSE TRUE

\* the consecutiveness part of is_teacher_available (lines 77-87)
ConsecutiveOk(st, teacher, day, period) ==
    IF ~allow_adjacent
    THEN IF period > 0 /\ st.ts[teacher][day][period - 1] # None THEN FALSE
         ELSE IF period < periods_per_day - 1 /\ st.ts[teacher][day][period + 1] # None
              THEN FALSE
              ELSE TRUE
    ELSE IF count_consecutive_periods(st, teacher, day, period) > max_consecutive
         THEN FALSE
         ELSE TRUE

\* mutant: the teacher's own occupancy of the slot is not checked
is_teacher_available_NoOccupancyCheck(st, teacher, day, period) ==
    IF st.dl[teacher][day] >= max_daily_load THEN FALSE
    ELSE ConsecutiveOk(st, teacher, day, period)

\* mutant: the daily load check lets a teacher at the maximum through
is_teacher_available_LoadOffByOne(st, teacher, day, period) ==
    IF st.ts[teacher][day][period] # None THEN FALSE
    ELSE IF st.dl[teacher][day] > max_daily_load THEN FALSE
    ELSE ConsecutiveOk(st, teacher, day, period)

is_teacher_available(st, teacher, day, period) ==
    IF st.ts[teacher][day][period] # None THEN FALSE
    ELSE IF st.dl[teacher][day] >= max_daily_load THEN FALSE
    ELSE ConsecutiveOk(st, teacher, day, period)

RECURSIVE SumLoads(_, _, _)
SumLoads(st, teacher, d) ==
    IF d >= days THEN 0 ELSE st.dl[teacher][d] + SumLoads(st, teacher, d + 1)

\* current_load < sum(loads) / days is compared without the division
get_teacher_preference_score(st, teacher, day, period) ==
    LET current_load == st.dl[teacher][day]
        has_adjacent ==
            \/ period > 0 /\ st.ts[teacher][day][period - 1] # None
            \/ period < periods_per_day - 1 /\ st.ts[teacher][day][period + 1] # None
    IN  (IF current_load * days < SumLoads(st, teacher, 0) THEN 10 ELSE 0)
      + (IF 1 <= period /\ period <= 4 THEN 5 ELSE 0)
      + (IF has_adjacent /\ allow_adjacent THEN 2 ELSE 0)

\* mutant: only the first teacher of the list is ever considered
AvailableTeachers_FirstTeacherOnly(st, day, period) ==
    {t \in teachers : t = 1 /\ is_teacher_available(st, t, day, period)}

AvailableTeachers(st, day, period) ==
    {t \in teachers : is_teacher_available(st, t, day, period)}

\* list.sort(key = score + random.random() * width, reverse=True): x can come
\* out first exactly when no other element's score leads x's by width or more.
CanBeFirst(S, score, width, x) ==
    x \in S /\ \A y \in S : score[y] - score[x] < width

\* the elements that get_available_teachers_ranked(day, period)[0] can be
FirstRankedTeachers(st, day, period) ==
    LET A == AvailableTeachers(st, day, period)
        sc == [t \in A |-> get_teacher_preference_score(st, t, day, period)]
    IN  {t \in A : CanBeFirst(A, sc, 2, t)}

----------------------------------------------------------------------------
(* Subject urgency *)

\* mutant: a subject that is exactly fulfilled is not recognised as complete
get_subject_priority_score_CompleteStillNeeded(st, classroom, subject) ==
    LET required == subject_periods[subject]
        assigned == st.sc[classroom][subject]
        remaining == required - assigned
    IN  IF remaining < 0 THEN -1
        ELSE remaining * 10
             + (IF 2 * assigned < required THEN 20
                ELSE IF 5 * assigned < 4 * required THEN 10 ELSE 0)
             + required

get_subject_priority_score(st, classroom, subject) ==
    LET required == subject_periods[subject]
        assigned == st.sc[classroom][subject]
        remaining == required - assigned
    IN  IF remaining <= 0 THEN -1
        ELSE remaining * 10
             + (IF 2 * assigned < required THEN 20
                ELSE IF 5 * assigned < 4 * required THEN 10 ELSE 0)
             + required

\* mutant: a subject that has been started is no longer listed
NeededSubjects_OnlyUnstarted(st, classroom) ==
    {s \in subjects : subject_periods[s] > 0 /\ st.sc[classroom][s] = 0}

\* the subjects get_priority_subjects_ranked(classroom) returns
NeededSubjects(st, classroom) ==
    {s \in subjects : get_subject_priority_score(st, classroom, s) > 0}

\* the elements that get_priority_subjects_ranked(classroom)[0] can be
FirstRankedSubjects(st, classroom) ==
    LET N == NeededSubjects(st, classroom)
        sc == [s \in N |-> get_subject_priority_score(st, classroom, s)]
    IN  {s \in N : CanBeFirst(N, sc, 1, s)}

\* mutant: the quota weighs less than the random perturbation
subject_priority_score_WeakWeight(subject) == subject_periods[subject] * 2

\* the deterministic part of subject_priority_score (plus random.random() * 5)
subject_priority_score(subject) == subject_periods[subject] * 10

calculate_slot_score(st, day, period) ==
      (IF 1 <= period /\ period <= 4 THEN 10 ELSE 0)
    + (IF 1 <= day /\ day <= 3 THEN 5 ELSE 0)
    + Cardinality(AvailableTeachers(st, day, period)) * 2

----------------------------------------------------------------------------
(* Repair engine: one relocation trial *)

NumSlots == days * periods_per_day

\* The search of lines 336-351 from slot k on (row-major order), on the state
\* st1 in which the donor assignment is removed.  A rollback breaks out of the
\* period loop only, so the search resumes at the first period of the next day.
\* The result is the set of outcomes the random ranking of line 344 allows;
\* home is the (day, period) the displaced assignment was moved to.
RECURSIVE RelocateSearch(_, _, _, _, _, _, _, _, _, _)
RelocateSearch(st1, k, rb, teacher, subject, from_classroom, from_day, from_period, target_classroom, target_subject) ==
    IF k >= NumSlots
    THEN {[ok |-> FALSE, rb |-> rb, home |-> <<>>,
           st |-> assign_teacher_to_slot(st1, teacher, from_classroom,
                                         from_day, from_period, subject)]}
    ELSE LET day == k \div periods_per_day
             period == k % periods_per_day
         IN  IF /\ st1.tt[from_classroom][day][period] = EmptyCell
                /\ is_teacher_available(st1, teacher, day, period)
             THEN LET st2 == assign_teacher_to_slot(st1, teacher, from_classroom,
                                                    day, period, subject)
                      target_teachers == FirstRankedTeachers(st2, from_day, from_period)
                  IN  IF target_teachers # {}
                      THEN {[ok |-> TRUE, rb |-> rb, home |-> <<day, period>>,
                             st |-> assign_teacher_to_slot(st2, t0, target_classroom,
                                        from_day, from_period, target_subject)]
                            : t0 \in target_teachers}
                      ELSE RelocateSearch(
                               remove_teacher_from_slot(st2, teacher, from_classroom,
                                                        day, period, subject),
                               (day + 1) * periods_per_day, TRUE,
                               teacher, subject, from_classroom, from_day, from_period,
                               target_classroom, target_subject)
             ELSE RelocateSearch(st1, k + 1, rb, teacher, subject, from_classroom,
                                 from_day, from_period, target_classroom, target_subject)

\* try_relocate_assignment: the set of outcomes (ok: the return value, rb:
\* a tentative move was rolled back, home, st: the state after the call)
try_relocate_assignment(st, from_classroom, from_day, from_period, target_classroom, target_subject) ==
    IF st.tt[from_classroom][from_day][from_period] = EmptyCell
    THEN {[ok |-> FALSE, rb |-> FALSE, home |-> <<>>, st |-> st]}
    ELSE LET teacher == st.tt[from_classroom][from_day][from_period][1]
             subject == st.tt[from_classroom][from_day][from_period][2]
             st1 == remove_teacher_from_slot(st, teacher, from_classroom,
                                             from_day, from_period, subject)
             can_assign_target ==
                 \E t \in teachers : is_teacher_available(st1, t, from_day, from_period)
         IN  IF /\ can_assign_target
                /\ st1.tt[target_classroom][from_day][from_period] = EmptyCell
             THEN RelocateSearch(st1, 0, FALSE, teacher, subject, from_classroom,
                                 from_day, from_period, target_classroom, target_subject)
             ELSE {[ok |-> FALSE, rb |-> FALSE, home |-> <<>>,
                    st |-> assign_teacher_to_slot(st1, teacher, from_classroom,
                                                  from_day, from_period, subject)]}

\* swap_candidates of lines 292-297
SwapCandidates(st) ==
    {x \in classrooms \X Days \X Periods : st.tt[x[1]][x[2]][x[3]] # EmptyCell}

----------------------------------------------------------------------------
(* Validation *)

RECURSIVE LongestRun(_, _, _, _, _, _)
LongestRun(st, teacher, day, period, consecutive, longest) ==
    IF period >= periods_per_day THEN longest
    ELSE IF st.ts[teacher][day][period] # None
         THEN LongestRun(st, teacher, day, period + 1, consecutive + 1,
                         IF consecutive + 1 > longest THEN consecutive + 1 ELSE longest)
         ELSE LongestRun(st, teacher, day, period + 1, 0, longest)

\* teachers_in_period has a duplicate (len(list) != len(set(list)))
TeacherConflictAt(st, day, period) ==
    \E c1, c2 \in classrooms :
        /\ c1 # c2
        /\ st.tt[c1][day][period] # EmptyCell
        /\ st.tt[c2][day][period] # EmptyCell
        /\ st.tt[c1][day][period][1] = st.tt[c2][day][period][1]

validate_timetables(st) ==
    /\ \A c \in classrooms : \A s \in subjects : st.sc[c][s] = subject_periods[s]
    /\ \A t \in teachers : \A d \in Days : ~(st.dl[t][d] > max_daily_load)
    /\ \A d \in Days : \A p \in Periods : ~TeacherConflictAt(st, d, p)
    /\ allow_adjacent =>
           \A t \in teachers : \A d \in Days :
               ~(LongestRun(st, t, d, 0, 0, 0) > max_consecutive)

----------------------------------------------------------------------------
(* Orchestration: generate_timetable_iterative and the phases it runs *)

SetGrids(st) ==
    /\ teacher_schedule' = st.ts
    /\ timetables' = st.tt
    /\ subject_counts' = st.sc
    /\ teacher_daily_load' = st.dl

Min(a, b) == IF a < b THEN a ELSE b

\* list.remove(x): drops the first occurrence of x
RECURSIVE RemoveFirst(_, _)
RemoveFirst(seq, x) ==
    IF seq = <<>> THEN <<>>
    ELSE IF Head(seq) = x THEN Tail(seq)
    ELSE <<Head(seq)>> \o RemoveFirst(Tail(seq), x)

\* mutant: one unit per (classroom, subject) whatever the quota is
AllAssignments_OneUnitPerSubject ==
    [c \in classrooms |-> [s \in subjects |-> IF subject_periods[s] > 0 THEN 1 ELSE 0]]

\* all_assignments: one unit per (classroom, subject, required period)
AllAssignments ==
    [c \in classrooms |-> [s \in subjects |-> subject_periods[s]]]

PendingUnits == {u \in classrooms \X subjects : pending[u[1]][u[2]] > 0}

\* mutant: the loop gives up one attempt early
AttemptReturns_FallsBackEarly(st) ==
    IF validate_timetables(st)
    THEN /\ pc' = "done"
         /\ result' = TRUE
         /\ attempt' = attempt
    ELSE /\ pc' = IF attempt + 2 < max_attempts THEN "attempt" ELSE "fallback"
         /\ attempt' = attempt + 1
         /\ result' = result

\* generate_timetable_smart_greedy returned validate_timetables(st) to the
\* loop of generate_timetable_iterative (lines 473-484)
AttemptReturns(st) ==
    IF validate_timetables(st)
    THEN /\ pc' = "done"
         /\ result' = TRUE
         /\ attempt' = attempt
    ELSE /\ pc' = IF attempt + 1 < max_attempts THEN "attempt" ELSE "fallback"
         /\ attempt' = attempt + 1
         /\ result' = result

\* no repair pass is running: its locals do not exist
RepairIdle ==
    /\ rCopy' = <<>>
    /\ rIdx' = 1
    /\ rAttempt' = 0
    /\ rCands' = {}
    /\ rTried' = {}
    /\ lastRelocate' = "none"

\* generate_timetable_smart_greedy, lines 204-218: reset and build the units
StartAttempt ==
    /\ pc = "attempt"
    /\ SetGrids(reset_data_structures)
    /\ pending' = AllAssignments
    /\ unassigned' = <<>>
    /\ pc' = "greedy"
    /\ RepairIdle
    /\ UNCHANGED <<cfgvars, hcvars, attempt, visited, result>>

\* lines 224-250: the next unit of the sorted all_assignments
GreedyUnit ==
    /\ pc = "greedy"
    /\ \E u \in PendingUnits :
         LET classroom == u[1]
             subject == u[2]
             unitScore == [v \in PendingUnits |-> subject_priority_score(v[2])]
             feasible == {x \in Days \X Periods :
                             /\ timetables[classroom][x[1]][x[2]] = EmptyCell
                             /\ AvailableTeachers(St, x[1], x[2]) # {}}
             slotScore == [x \in feasible |-> calculate_slot_score(St, x[1], x[2])]
         IN  /\ CanBeFirst(PendingUnits, unitScore, 5, u)
             /\ pending' = [pending EXCEPT ![classroom][subject] = @ - 1]
             /\ IF feasible = {}
                THEN /\ unassigned' = Append(unassigned, u)
                     /\ UNCHANGED grids
                ELSE /\ \E x \in feasible :
                          /\ CanBeFirst(feasible, slotScore, 5, x)
                          /\ \E teacher \in FirstRankedTeachers(St, x[1], x[2]) :
                               SetGrids(assign_teacher_to_slot(St, teacher, classroom,
                                                               x[1], x[2], subject))
                     /\ UNCHANGED unassigned
    /\ UNCHANGED <<cfgvars, hcvars, pc, attempt, rCopy, rIdx, rAttempt, rCands, rTried,
                   lastRelocate, visited, result>>

\* lines 252-257: all units processed
EndGreedy ==
    /\ pc = "greedy"
    /\ PendingUnits = {}
    /\ IF unassigned # <<>>
       THEN /\ pc' = "repair"
            /\ rCopy' = unassigned
            /\ rIdx' = 1
            /\ rAttempt' = 0
            /\ rCands' = SwapCandidates(St)
            /\ rTried' = {}
            /\ UNCHANGED <<attempt, result>>
       ELSE /\ AttemptReturns(St)
            /\ UNCHANGED <<rCopy, rIdx, rAttempt, rCands, rTried>>
    /\ UNCHANGED <<cfgvars, hcvars, grids, pending, unassigned, lastRelocate, visited>>

\* mutant: the loop over unassigned[:] does not advance
NextUnit_StaysOnUnit(st) ==
    /\ rIdx' = rIdx
    /\ rAttempt' = 0
    /\ rCands' = SwapCandidates(st)
    /\ rTried' = {}

\* resolve_unassigned_with_swapping moves on to the next unit of unassigned[:]
NextUnit(st) ==
    /\ rIdx' = rIdx + 1
    /\ rAttempt' = 0
    /\ rCands' = SwapCandidates(st)
    /\ rTried' = {}

\* lines 305-311: the next donor of the shuffled prefix is tried
RelocationTrial ==
    /\ pc = "repair"
    /\ rIdx <= Len(rCopy)
    /\ \E donor \in rCands \ rTried :
       \E o \in try_relocate_assignment(St, donor[1], donor[2], donor[3],
                                        rCopy[rIdx][1], rCopy[rIdx][2]) :
         /\ SetGrids(o.st)
         /\ lastRelocate' = IF o.ok THEN "ok" ELSE IF o.rb THEN "rollback" ELSE "fail"
         /\ IF o.ok
            THEN /\ unassigned' = RemoveFirst(unassigned, rCopy[rIdx])
                 /\ NextUnit(o.st)
            ELSE /\ unassigned' = unassigned
                 /\ IF Cardinality(rTried) + 1 < Min(DonorPrefix, Cardinality(rCands))
                    THEN /\ rTried' = rTried \cup {donor}
                         /\ UNCHANGED <<rIdx, rAttempt, rCands>>
                    ELSE IF rAttempt + 1 < max_swap_attempts
                         THEN /\ rAttempt' = rAttempt + 1
                              /\ rCands' = SwapCandidates(o.st)
                              /\ rTried' = {}
                              /\ rIdx' = rIdx
                         ELSE NextUnit(o.st)
    /\ UNCHANGED <<cfgvars, hcvars, pc, attempt, pending, rCopy, visited, result>>

\* lines 299-300: no filled cell to take a donor from
RepairNoCandidates ==
    /\ pc = "repair"
    /\ rIdx <= Len(rCopy)
    /\ rCands = {}
    /\ NextUnit(St)
    /\ UNCHANGED <<cfgvars, hcvars, grids, pc, attempt, pending, unassigned, rCopy,
                   lastRelocate, visited, result>>

\* the repair pass is over; line 257 validates
EndRepair ==
    /\ pc = "repair"
    /\ rIdx > Len(rCopy)
    /\ AttemptReturns(St)
    /\ UNCHANGED <<cfgvars, hcvars, grids, pending, unassigned, rCopy, rIdx, rAttempt,
                   rCands, rTried, lastRelocate, visited>>

AllSlots == classrooms \X Days \X Periods

\* lines 482-484 and solve_with_backtracking
StartBacktrack ==
    /\ pc = "fallback"
    /\ SetGrids(reset_data_structures)
    /\ visited' = {}
    /\ pc' = "backtrack"
    /\ unassigned' = <<>>
    /\ RepairIdle
    /\ UNCHANGED <<cfgvars, hcvars, attempt, pending, result>>

\* backtrack_solve at the next slot of the shuffled list, lines 447-462
BacktrackSlot ==
    /\ pc = "backtrack"
    /\ \E slot \in AllSlots \ visited :
         LET classroom == slot[1]
             day == slot[2]
             period == slot[3]
         IN  /\ visited' = visited \cup {slot}
             /\ IF \/ NeededSubjects(St, classroom) = {}
                   \/ AvailableTeachers(St, day, period) = {}
                THEN UNCHANGED grids
                ELSE \E teacher \in FirstRankedTeachers(St, day, period) :
                     \E subject \in FirstRankedSubjects(St, classroom) :
                        SetGrids(assign_teacher_to_slot(St, teacher, classroom,
                                                        day, period, subject))
    /\ UNCHANGED <<cfgvars, hcvars, pc, attempt, pending, unassigned, rCopy, rIdx, rAttempt,
                   rCands, rTried, lastRelocate, result>>

\* lines 444-445: past the last slot backtrack_solve returns True, and every
\* enclosing call returns it unchanged (lines 451, 456, 462-463); lines 486-488
BacktrackReturn ==
    /\ pc = "backtrack"
    /\ visited = AllSlots
    /\ pc' = "done"
    /\ result' = TRUE
    /\ UNCHANGED <<cfgvars, hcvars, grids, attempt, pending, unassigned, rCopy, rIdx,
                   rAttempt, rCands, rTried, lastRelocate, visited>>

RECURSIVE TotalQuota(_, _)
TotalQuota(q, s) == IF s > NumSubjects THEN 0 ELSE q[s] + TotalQuota(q, s + 1)

\* The quotas a run is configured with: the code treats the subjects alike, so
\* one representative (non-increasing in the subject) stands for each multiset.
Quotas ==
    {q \in [subjects -> 0..MaxQuota] :
        /\ \A s \in subjects : s + 1 \in subjects => q[s] >= q[s + 1]
        /\ TotalQuota(q, 1) <= MaxDemand}

Modes ==
    {<<TRUE, k>> : k \in 1..MaxConsecutive} \cup {<<FALSE, MaxConsecutive>>}

\* the grids a run is configured with
Shapes ==
    {g \in (1..MaxDays) \X (1..MaxPeriods) : g[1] * g[2] <= MaxCells}

Init ==
    /\ teachers \in {1..n : n \in 0..NumTeachers}
    /\ \E g \in Shapes : days = g[1] /\ periods_per_day = g[2]
    /\ classrooms \in {1..n : n \in 1..NumClassrooms}
    /\ subject_periods \in Quotas
    /\ max_daily_load \in 1..MaxDailyLoad
    /\ \E m \in Modes : allow_adjacent = m[1] /\ max_consecutive = m[2]
    /\ teacher_schedule = reset_data_structures.ts
    /\ timetables = reset_data_structures.tt
    /\ subject_counts = reset_data_structures.sc
    /\ teacher_daily_load = reset_data_structures.dl
    /\ pc = "attempt"
    /\ attempt = 0
    /\ pending = [c \in classrooms |-> [s \in subjects |-> 0]]
    /\ unassigned = <<>>
    /\ rCopy = <<>>
    /\ rIdx = 1
    /\ rAttempt = 0
    /\ rCands = {}
    /\ rTried = {}
    /\ lastRelocate = "none"
    /\ visited = {}
    /\ result = "none"
    /\ HillClimbIdle

\* validate_timetables called on the current contents of the structures
ValidateCall ==
    /\ pc = "validate"
    /\ result' = validate_timetables(St)
    /\ pc' = "validated"
    /\ UNCHANGED <<cfgvars, hcvars, grids, attempt, pending, unassigned, rCopy, rIdx,
                   rAttempt, rCands, rTried, lastRelocate, visited>>

\* Arbitrary contents of the four structures (two classrooms, one teacher,
\* one day of two periods) for the validation pass to judge.
InitValidate ==
    /\ teachers = 1..1
    /\ classrooms = 1..2
    /\ days = 1
    /\ periods_per_day = 2
    /\ subject_periods \in Quotas
    /\ max_daily_load \in 1..MaxDailyLoad
    /\ \E m \in Modes : allow_adjacent = m[1] /\ max_consecutive = m[2]
    /\ teacher_schedule \in [1..1 -> [0..0 -> [0..1 -> {None} \cup (1..2)]]]
    /\ timetables \in [1..2 -> [0..0 -> [0..1 -> {EmptyCell, <<1, 1>>}]]]
    /\ subject_counts \in
          {sc \in [1..2 -> [subjects -> 0..(MaxQuota + 1)]] :
              \A c \in 1..2 : \A s \in subjects :
                  sc[c][s] \in {subject_periods[s], subject_periods[s] + 1}}
    /\ teacher_daily_load \in [1..1 -> [0..0 -> 0..(MaxDailyLoad + 1)]]
    /\ pc = "validate"
    /\ attempt = 0
    /\ pending = [c \in classrooms |-> [s \in subjects |-> 0]]
    /\ unassigned = <<>>
    /\ rCopy = <<>>
    /\ rIdx = 1
    /\ rAttempt = 0
    /\ rCands = {}
    /\ rTried = {}
    /\ lastRelocate = "none"
    /\ visited = {}
    /\ result = "none"
    /\ HillClimbIdle

SpecValidate == InitValidate /\ [][ValidateCall]_vars

----------------------------------------------------------------------------
(* backtrack_solve as the code computes it, with its loops and its undo *)

RECURSIVE backtrack_solve(_, _, _)
RECURSIVE TryPairs(_, _, _, _, _, _, _, _)

\* The loops of lines 458-465 at slots[slot_index], entered in state st0.
\* tLeft: the teachers of available_teachers not yet reached, cur: the
\* teacher of the running outer iteration (None between iterations), sLeft:
\* the subjects of needed_subjects not yet tried with cur; the two lists are
\* in the orders their random rankings (computed on st0) allow.  acc holds
\* the slot indices visited and the number of undo steps made so far.
TryPairs(st0, st, slots, slot_index, tLeft, cur, sLeft, acc) ==
    LET classroom == slots[slot_index + 1][1]
        day == slots[slot_index + 1][2]
        period == slots[slot_index + 1][3]
        tsc == [t \in tLeft |-> get_teacher_preference_score(st0, t, day, period)]
        ssc == [x \in sLeft |-> get_subject_priority_score(st0, classroom, x)]
    IN  IF cur = None
        THEN IF tLeft = {}
             THEN {[ret |-> FALSE, st |-> st, visits |-> acc.visits, undone |-> acc.undone]}
             ELSE UNION {TryPairs(st0, st, slots, slot_index, tLeft \ {t}, t,
                                  NeededSubjects(st0, classroom), acc)
                         : t \in {t \in tLeft : CanBeFirst(tLeft, tsc, 2, t)}}
        ELSE IF sLeft = {}
             THEN TryPairs(st0, st, slots, slot_index, tLeft, None, {}, acc)
             ELSE UNION {UNION {
                     IF r.ret
                     THEN {[ret |-> TRUE, st |-> r.st,
                            visits |-> acc.visits \o r.visits,
                            undone |-> acc.undone + r.undone]}
                     ELSE TryPairs(st0,
                                   remove_teacher_from_slot(r.st, cur, classroom,
                                                            day, period, subject),
                                   slots, slot_index, tLeft, cur, sLeft \ {subject},
                                   [visits |-> acc.visits \o r.visits,
                                    undone |-> acc.undone + r.undone + 1])
                     : r \in backtrack_solve(
                                 assign_teacher_to_slot(st, cur, classroom,
                                                        day, period, subject),
                                 slots, slot_index + 1)}
                   : subject \in {x \in sLeft : CanBeFirst(sLeft, ssc, 1, x)}}

\* mutant: a slot that needs a subject and has no available teacher makes the
\* call fail instead of being skipped
backtrack_solve_FailsWithoutTeacher(st, slots, slot_index) ==
    IF slot_index >= Len(slots)
    THEN {[ret |-> TRUE, st |-> st, visits |-> <<>>, undone |-> 0]}
    ELSE LET classroom == slots[slot_index + 1][1]
             day == slots[slot_index + 1][2]
             period == slots[slot_index + 1][3]
         IN  IF NeededSubjects(st, classroom) = {}
             THEN {[r EXCEPT !.visits = <<slot_index>> \o @]
                   : r \in backtrack_solve(st, slots, slot_index + 1)}
             ELSE IF AvailableTeachers(st, day, period) = {}
             THEN {[ret |-> FALSE, st |-> st, visits |-> <<slot_index>>, undone |-> 0]}
             ELSE TryPairs(st, st, slots, slot_index,
                           AvailableTeachers(st, day, period), None, {},
                           [visits |-> <<slot_index>>, undone |-> 0])

\* backtrack_solve(slots, slot_index) called in state st: the set of outcomes
\* (ret: the value returned, st: the state after the call, visits: the slot
\* indices at which a call looked at a slot, in order, undone: the number of
\* remove_teacher_from_slot calls of line 465)
backtrack_solve(st, slots, slot_index) ==
    IF slot_index >= Len(slots)
    THEN {[ret |-> TRUE, st |-> st, visits |-> <<>>, undone |-> 0]}
    ELSE LET classroom == slots[slot_index + 1][1]
             day == slots[slot_index + 1][2]
             period == slots[slot_index + 1][3]
         IN  IF NeededSubjects(st, classroom) = {}
             THEN {[r EXCEPT !.visits = <<slot_index>> \o @]
                   : r \in backtrack_solve(st, slots, slot_index + 1)}
             ELSE IF AvailableTeachers(st, day, period) = {}
             THEN {[r EXCEPT !.visits = <<slot_index>> \o @]
                   : r \in backtrack_solve(st, slots, slot_index + 1)}
             ELSE TryPairs(st, st, slots, slot_index,
                           AvailableTeachers(st, day, period), None, {},
                           [visits |-> <<slot_index>>, undone |-> 0])

\* the lists random.shuffle(slots) can produce (lines 433-439)
SlotOrders ==
    {f \in [1..Cardinality(AllSlots) -> AllSlots] :
        \A i, j \in 1..Cardinality(AllSlots) : i # j => f[i] # f[j]}

\* backtrack_solve is called with some slot list and index on the current
\* contents of the structures
BacktrackCall ==
    /\ pc = "solve"
    /\ \E slots \in SlotOrders : \E slot_index \in 0..Len(slots) :
       \E o \in backtrack_solve(St, slots, slot_index) :
          /\ SetGrids(o.st)
          /\ result' = o.ret
          /\ visited' = {slots[k + 1] : k \in {o.visits[n] : n \in 1..Len(o.visits)}}
    /\ pc' = "solved"
    /\ UNCHANGED <<cfgvars, hcvars, attempt, pending, unassigned, rCopy, rIdx, rAttempt,
                   rCands, rTried, lastRelocate>>

\* the classrooms in which teacher t teaches at (d, p) according to grid tt
ClassroomsOf(tt, t, d, p) ==
    {c \in DOMAIN tt : tt[c][d][p] # EmptyCell /\ tt[c][d][p][1] = t}

\* Starting states for backtrack_solve: two teachers, two classrooms, one day
\* of two periods; any contents of the classroom grids in which no teacher is
\* in two classrooms at once, and the other three structures as the
\* insertions that build such grids leave them.
InitBacktrack ==
    /\ teachers = 1..2
    /\ classrooms = 1..2
    /\ days = 1
    /\ periods_per_day = 2
    /\ subject_periods \in Quotas
    /\ max_daily_load \in 1..MaxDailyLoad
    /\ \E m \in Modes : allow_adjacent = m[1] /\ max_consecutive = m[2]
    /\ timetables \in
          {tt \in [1..2 -> [0..0 -> [0..1 -> {EmptyCell} \cup ((1..2) \X subjects)]]] :
              \A t \in 1..2 : \A p \in 0..1 : Cardinality(ClassroomsOf(tt, t, 0, p)) <= 1}
    /\ teacher_schedule =
          [t \in 1..2 |-> [d \in 0..0 |-> [p \in 0..1 |->
              IF ClassroomsOf(timetables, t, d, p) = {} THEN None
              ELSE CHOOSE c \in ClassroomsOf(timetables, t, d, p) : TRUE]]]
    /\ subject_counts =
          [c \in 1..2 |-> [s \in subjects |->
              Cardinality({p \in 0..1 : timetables[c][0][p] # EmptyCell
                                        /\ timetables[c][0][p][2] = s})]]
    /\ teacher_daily_load =
          [t \in 1..2 |-> [d \in 0..0 |->
              Cardinality({p \in 0..1 : ClassroomsOf(timetables, t, d, p) # {}})]]
    /\ pc = "solve"
    /\ attempt = 0
    /\ pending = [c \in classrooms |-> [s \in subjects |-> 0]]
    /\ unassigned = <<>>
    /\ rCopy = <<>>
    /\ rIdx = 1
    /\ rAttempt = 0
    /\ rCands = {}
    /\ rTried = {}
    /\ lastRelocate = "none"
    /\ visited = {}
    /\ result = "none"
    /\ HillClimbIdle

SpecBacktrack == InitBacktrack /\ [][BacktrackCall]_vars

----------------------------------------------------------------------------
(* hillclimb.py *)

\* the timetables propose_random_timetable can return
propose_random_timetable == [Days -> [Periods -> teachers]]

evaluate_cost(timetable) ==
    LET repeated == {x \in Days \X Periods :
                        \E q \in Periods : q < x[2] /\ timetable[x[1]][q] = timetable[x[1]][x[2]]}
        teacher_load == [t \in teachers |->
                            Cardinality({x \in Days \X Periods : timetable[x[1]][x[2]] = t})]
        expected_load == (days * periods_per_day) \div Cardinality(teachers)
        off_balance == {t \in teachers : \/ teacher_load[t] > expected_load + 2
                                         \/ teacher_load[t] < expected_load - 2}
    IN  1000 * Cardinality(repeated)
        + 10 * (IF periods_per_day > 0 THEN days ELSE 0)
        + 500 * Cardinality(off_balance)

\* mutant: the copy shares its rows with the argument (timetable[:]), so the
\* write of line 43 lands in the caller's timetable too
mutate_timetable_SharesRows(timetable) ==
    {[arg |-> [timetable EXCEPT ![d][p] = t], new |-> [timetable EXCEPT ![d][p] = t]]
     : d \in Days, p \in Periods, t \in teachers}

\* mutate_timetable: the outcomes of a call (arg: the list passed in as it is
\* after the call, new: the list returned).  Line 40 copies every row, so the
\* write of line 43 goes to a row of the copy.
mutate_timetable(timetable) ==
    {[arg |-> timetable, new |-> [timetable EXCEPT ![d][p] = t]]
     : d \in Days, p \in Periods, t \in teachers}

\* lines 48-49
HillClimbStart ==
    /\ pc = "hill"
    /\ \E timetable \in propose_random_timetable :
          /\ current_timetable' = timetable
          /\ current_cost' = evaluate_cost(timetable)
    /\ iteration' = 0
    /\ pc' = "climb"
    /\ UNCHANGED <<cfgvars, grids, attempt, pending, unassigned, rCopy, rIdx, rAttempt,
                   rCands, rTried, lastRelocate, visited, result>>

\* one pass of the loop body, lines 52-62
HillClimbIteration ==
    /\ pc = "climb"
    /\ iteration < max_iterations
    /\ \E m \in mutate_timetable(current_timetable) :
         LET new_cost == evaluate_cost(m.new)
             accepted == new_cost < current_cost
             cost_after == IF accepted THEN new_cost ELSE current_cost
         IN  /\ current_timetable' = IF accepted THEN m.new ELSE m.arg
             /\ current_cost' = cost_after
             /\ IF cost_after = 0
                THEN pc' = "returned" /\ iteration' = iteration
                ELSE pc' = pc /\ iteration' = iteration + 1
    /\ UNCHANGED <<cfgvars, grids, attempt, pending, unassigned, rCopy, rIdx, rAttempt,
                   rCands, rTried, lastRelocate, visited, result>>

\* the loop is exhausted; line 64
HillClimbReturn ==
    /\ pc = "climb"
    /\ iteration = max_iterations
    /\ pc' = "returned"
    /\ UNCHANGED <<cfgvars, grids, hcvars, attempt, pending, unassigned, rCopy, rIdx,
                   rAttempt, rCands, rTried, lastRelocate, visited, result>>

\* hill_climb_timetable(teachers, days, periods) is about to be called; the
\* scheduler class is not involved
InitHillClimb ==
    /\ teachers \in {1..n : n \in 1..NumTeachers}
    /\ \E g \in Shapes : days = g[1] /\ periods_per_day = g[2]
    /\ classrooms = {}
    /\ subject_periods = [s \in subjects |-> 0]
    /\ max_daily_load = 1
    /\ allow_adjacent = TRUE
    /\ max_consecutive = 1
    /\ teacher_schedule = reset_data_structures.ts
    /\ timetables = reset_data_structures.tt
    /\ subject_counts = reset_data_structures.sc
    /\ teacher_daily_load = reset_data_structures.dl
    /\ pc = "hill"
    /\ attempt = 0
    /\ pending = [c \in classrooms |-> [s \in subjects |-> 0]]
    /\ unassigned = <<>>
    /\ rCopy = <<>>
    /\ rIdx = 1
    /\ rAttempt = 0
    /\ rCands = {}
    /\ rTried = {}
    /\ lastRelocate = "none"
    /\ visited = {}
    /\ result = "none"
    /\ HillClimbIdle

NextHillClimb == HillClimbStart \/ HillClimbIteration \/ HillClimbReturn

SpecHillClimb == InitHillClimb /\ [][NextHillClimb]_vars

Next ==
    \/ StartAttempt
    \/ GreedyUnit
    \/ EndGreedy
    \/ RelocationTrial
    \/ RepairNoCandidates
    \/ EndRepair
    \/ StartBacktrack
    \/ BacktrackSlot
    \/ BacktrackReturn

Spec == Init /\ [][Next]_vars

\* The configurations whose complete runs are followed to their end: every
\* one-classroom configuration, and the configurations of NumClassrooms
\* classrooms with the limits at their largest values.
InitFair ==
    /\ Init
    /\ Cardinality(classrooms) = 1
          \/ /\ max_daily_load = MaxDailyLoad
             /\ allow_adjacent
             /\ max_consecutive = MaxConsecutive

\* The program is single-threaded and synchronous: whenever a step of it is
\* possible, a step is taken.
FairSpec == InitFair /\ [][Next]_vars /\ WF_vars(Next)

----------------------------------------------------------------------------
(* Properties *)

Filled(c, d, p) == timetables[c][d][p] # EmptyCell

\* C1: whenever generate_timetable_iterative returns True, every classroom's
\* fulfillment count of every subject equals the subject's quota exactly.
C1_SuccessMeetsQuotas ==
    (pc = "done" /\ result = TRUE) =>
        \A c \in classrooms : \A s \in subjects :
            subject_counts[c][s] = subject_periods[s]

\* C2: at every (day, period) no teacher is the teacher of the timetable
\* cells of two distinct classrooms.
C2_NoTeacherInTwoClassrooms ==
    \A d \in Days : \A p \in Periods : \A c1, c2 \in classrooms :
        (c1 # c2 /\ Filled(c1, d, p) /\ Filled(c2, d, p)) =>
            timetables[c1][d][p][1] # timetables[c2][d][p][1]

\* a relocation committed, and two classrooms are taught in the same period
C2_Witness ==
    /\ lastRelocate = "ok"
    /\ \E d \in Days : \E p \in Periods : \E c1, c2 \in classrooms :
          c1 # c2 /\ Filled(c1, d, p) /\ Filled(c2, d, p)

\* C3: every teacher's daily load is at most max_daily_load.
C3_DailyLoadWithinMax ==
    \A t \in teachers : \A d \in Days : teacher_daily_load[t][d] <= max_daily_load

\* the run is over and a teacher is loaded up to the maximum on a day that
\* has more periods than the maximum
C3_Witness ==
    /\ pc = "done"
    /\ max_daily_load < periods_per_day
    /\ \E t \in teachers : \E d \in Days : teacher_daily_load[t][d] = max_daily_load

\* the periods a..b of day d are all occupied by teacher t
OccupiedRun(t, d, a, b) == \A p \in a..b : teacher_schedule[t][d][p] # None

\* C4: in limited-consecutive mode no teacher has a run of occupied periods
\* longer than max_consecutive; in strict mode no teacher occupies two
\* adjacent periods of a day.
C4_ConsecutiveRule ==
    \A t \in teachers : \A d \in Days : \A a, b \in Periods :
        (a <= b /\ OccupiedRun(t, d, a, b)) =>
            IF allow_adjacent THEN b - a + 1 <= max_consecutive ELSE a = b

\* the run is over; a teacher has a run of exactly max_consecutive = 2 periods
\* on a day of 3 periods (limited mode)
C4_Witness ==
    /\ pc = "done"
    /\ allow_adjacent
    /\ max_consecutive = 2
    /\ periods_per_day = 3
    /\ \E t \in teachers : \E d \in Days : \E a \in Periods :
          a + 1 \in Periods /\ OccupiedRun(t, d, a, a + 1)

\* C5: no classroom's fulfillment count of a subject exceeds the quota.
C5_CountsWithinQuota ==
    \A c \in classrooms : \A s \in subjects :
        subject_counts[c][s] <= subject_periods[s]

\* the backtracking solver has ended with one subject of a classroom exactly
\* fulfilled and another one below its quota
C5_Witness ==
    /\ pc = "done"
    /\ visited = AllSlots
    /\ \E c \in classrooms : \E s1, s2 \in subjects :
          /\ subject_periods[s1] > 0
          /\ subject_counts[c][s1] = subject_periods[s1]
          /\ subject_counts[c][s2] < subject_periods[s2]

\* the instances the claim names as infeasible: positive demand without any
\* teacher, or a total demand above the teachers' capacity
InfeasibleInstance ==
    LET demand == Cardinality(classrooms) * TotalQuota(subject_periods, 1)
    IN  \/ teachers = {} /\ demand > 0
        \/ demand > Cardinality(teachers) * days * max_daily_load

\* C6: on an infeasible instance generate_timetable_iterative returns False.
C6_InfeasibleReportsFailure ==
    (pc = "done" /\ InfeasibleInstance) => result = FALSE

\* C7: a try_relocate_assignment call that returns False leaves the four
\* structures exactly as they were before the call.
C7_FailedRelocationIsAtomic ==
    [][(RelocationTrial /\ lastRelocate' \in {"fail", "rollback"})
          => UNCHANGED grids]_vars

\* a relocation trial failed after a tentative move was made and rolled back
C7_Witness == lastRelocate = "rollback"

CellsWithSubject(c, s) ==
    {x \in Days \X Periods : Filled(c, x[1], x[2]) /\ timetables[c][x[1]][x[2]][2] = s}

CellsWithTeacher(t, d) ==
    {x \in classrooms \X Periods :
        Filled(x[1], d, x[2]) /\ timetables[x[1]][d][x[2]][1] = t}

\* C8: the counters and the teacher grid agree with the classroom grids.
C8_DerivedStructuresConsistent ==
    /\ \A c \in classrooms : \A s \in subjects :
          subject_counts[c][s] = Cardinality(CellsWithSubject(c, s))
    /\ \A t \in teachers : \A d \in Days : \A p \in Periods : \A c \in classrooms :
          (teacher_schedule[t][d][p] = c) <=>
              (Filled(c, d, p) /\ timetables[c][d][p][1] = t)
    /\ \A t \in teachers : \A d \in Days :
          teacher_daily_load[t][d] = Cardinality(CellsWithTeacher(t, d))

\* C9: validate_timetables returns True only if every quota is met exactly,
\* no teacher is in two classrooms at one (day, period), no daily load exceeds
\* max_daily_load, and the consecutiveness rule of the configured mode holds.
C9_ValidationChecksAllFour ==
    (pc = "validated" /\ result = TRUE) =>
        /\ \A c \in classrooms : \A s \in subjects :
              subject_counts[c][s] = subject_periods[s]
        /\ C2_NoTeacherInTwoClassrooms
        /\ C3_DailyLoadWithinMax
        /\ C4_ConsecutiveRule

\* number of occurrences of x in seq
RECURSIVE CountIn(_, _)
CountIn(seq, x) ==
    IF seq = <<>> THEN 0
    ELSE (IF Head(seq) = x THEN 1 ELSE 0) + CountIn(Tail(seq), x)

\* generate_timetable_smart_greedy is at, or has passed, its return statement:
\* the greedy loop and the repair pass (if any) are over and the unresolved
\* list still is that attempt's list
AttemptEnded ==
    \/ pc = "greedy" /\ PendingUnits = {} /\ unassigned = <<>>
    \/ pc = "repair" /\ rIdx > Len(rCopy)
    \/ pc \in {"attempt", "fallback"} /\ attempt > 0

\* C11: with no teacher, no phase ever makes an assignment (every cell stays
\* empty and every count 0, up to and including the end of the run), and at
\* the end of each greedy+repair attempt the unresolved list holds exactly
\* subject_periods[s] entries of every (classroom, subject s).
C11_NoTeachersNothingAssigned ==
    teachers = {} =>
        /\ \A c \in classrooms : \A d \in Days : \A p \in Periods : ~Filled(c, d, p)
        /\ \A c \in classrooms : \A s \in subjects : subject_counts[c][s] = 0
        /\ AttemptEnded =>
              \A c \in classrooms : \A s \in subjects :
                  CountIn(unassigned, <<c, s>>) = subject_periods[s]

\* without teachers the fifth attempt has ended with a subject of quota 2
\* unresolved, and the backtracking fallback is about to run
C11_Witness ==
    /\ teachers = {}
    /\ pc = "fallback"
    /\ \E s \in subjects : subject_periods[s] = 2
    /\ unassigned # <<>>

\* without teachers the run has ended after the backtracking solver visited
\* every slot
C11_RunEnds ==
    teachers = {} /\ pc = "done" /\ visited = AllSlots

\* C12: from the start of the greedy loop to the return of the attempt, for
\* every classroom c and subject s the count of s in c, the (c, s) entries of
\* the unresolved list and the (c, s) units not yet processed add up to the
\* quota; no unit is pending once the greedy loop is over, so at the end of
\* greedy+repair count + unresolved entries = quota, and an entry leaves the
\* list only in a step that raises the count of s in c by one.
C12_UnresolvedListIsExact ==
    (pc \in {"greedy", "repair"} \/ AttemptEnded) =>
        \A c \in classrooms : \A s \in subjects :
            /\ subject_counts[c][s] + CountIn(unassigned, <<c, s>>) + pending[c][s]
                  = subject_periods[s]
            /\ AttemptEnded => pending[c][s] = 0

\* a repair pass is over in which a relocation resolved one unit and another
\* unit stayed unresolved
C12_Witness ==
    /\ pc = "repair"
    /\ rIdx > Len(rCopy)
    /\ Len(unassigned) < Len(rCopy)
    /\ unassigned # <<>>

FilledCells(st) ==
    {x \in classrooms \X Days \X Periods : st.tt[x[1]][x[2]][x[3]] # EmptyCell}

\* the try_relocate_assignment calls the repair pass can make in this state:
\* the donor cell and the unit (target classroom, target subject)
RelocationCalls ==
    IF pc = "repair" /\ rIdx <= Len(rCopy)
    THEN {<<donor, rCopy[rIdx]>> : donor \in rCands \ rTried}
    ELSE {}

\* the outcomes of the call k that return True
Successes(k) ==
    {o \in try_relocate_assignment(St, k[1][1], k[1][2], k[1][3], k[2][1], k[2][2]) : o.ok}

\* C13: whenever try_relocate_assignment returns True, the displaced
\* (teacher, subject) pair is held by a cell of the donor classroom, the freed
\* cell of the target classroom holds the target subject, every other cell
\* that was filled keeps its content, and exactly one more cell is filled
\* than before the call (whether or not donor and target classroom differ).
C13_RelocationCommitsBothMoves ==
    \A k \in RelocationCalls : \A o \in Successes(k) :
        LET donor == k[1]
            displaced == timetables[donor[1]][donor[2]][donor[3]]
        IN  /\ \E d \in Days : \E p \in Periods : o.st.tt[donor[1]][d][p] = displaced
            /\ o.st.tt[k[2][1]][donor[2]][donor[3]] # EmptyCell
            /\ o.st.tt[k[2][1]][donor[2]][donor[3]][2] = k[2][2]
            /\ \A x \in FilledCells(St) \ {donor} :
                   o.st.tt[x[1]][x[2]][x[3]] = timetables[x[1]][x[2]][x[3]]
            /\ Cardinality(FilledCells(o.st)) = Cardinality(FilledCells(St)) + 1

\* C14: whenever try_relocate_assignment returns True, the displaced
\* assignment was moved to a (day, period) other than the donor's own.
C14_DisplacedMovesElsewhere ==
    \A k \in RelocationCalls : \A o \in Successes(k) :
        o.home # <<k[1][2], k[1][3]>>

\* the four structures are as reset_data_structures leaves them after the step
FreshAfterStep ==
    /\ teacher_schedule' = reset_data_structures.ts
    /\ timetables' = reset_data_structures.tt
    /\ subject_counts' = reset_data_structures.sc
    /\ teacher_daily_load' = reset_data_structures.dl

\* C15: every greedy+repair attempt starts from fully reset structures; an
\* attempt whose validation passes ends the run at once with True and nothing
\* runs after the end; an attempt is counted as failed exactly when its
\* validation fails; the backtracking solver starts only after max_attempts
\* failed attempts, on fully reset structures.
C15_OrchestrationOrder ==
    [][/\ pc # "done"
       /\ (pc = "attempt" /\ pc' = "greedy") =>
              attempt < max_attempts /\ FreshAfterStep
       /\ (pc \in {"greedy", "repair"} /\ pc' \notin {"greedy", "repair"}) =>
              IF validate_timetables(St)
              THEN pc' = "done" /\ result' = TRUE /\ attempt' = attempt
              ELSE pc' \in {"attempt", "fallback"} /\ attempt' = attempt + 1
       /\ (pc \in {"greedy", "repair"} /\ pc' \in {"greedy", "repair"}) =>
              attempt' = attempt
       /\ pc' = "fallback" => attempt' = max_attempts
       /\ pc' = "backtrack" /\ pc # "backtrack" =>
              pc = "fallback" /\ attempt = max_attempts /\ FreshAfterStep
      ]_vars

\* the backtracking solver has just been invoked, after five failed attempts
C15_Witness ==
    pc = "backtrack" /\ visited = {} /\ attempt = max_attempts

\* the run stopped with True at an attempt that followed failed ones
C15_StopsAtFirstPass ==
    pc = "done" /\ result = TRUE /\ visited = {} /\ attempt \in 1..(max_attempts - 1)

\* the periods of the contiguous run that teacher t would have on day d if
\* period p were given to t: p itself and the occupied periods joined to it
RunAround(t, d, p) ==
    {q \in Periods :
        \/ q = p
        \/ q < p /\ \A r \in q..(p - 1) : teacher_schedule[t][d][r] # None
        \/ q > p /\ \A r \in (p + 1)..q : teacher_schedule[t][d][r] # None}

\* C16: is_teacher_available(t, d, p) is True exactly when t is unoccupied
\* at (d, p), t's load on day d is strictly below max_daily_load, and either
\* (limited mode) the run around p, p included, has at most max_consecutive
\* periods or (strict mode) t occupies neither p - 1 nor p + 1.
C16_AvailabilityExact ==
    \A t \in teachers : \A d \in Days : \A p \in Periods :
        is_teacher_available(St, t, d, p) <=>
            /\ teacher_schedule[t][d][p] = None
            /\ teacher_daily_load[t][d] < max_daily_load
            /\ IF allow_adjacent
               THEN Cardinality(RunAround(t, d, p)) <= max_consecutive
               ELSE \A q \in Periods \cap {p - 1, p + 1} : teacher_schedule[t][d][q] = None

\* strict mode, a day of three periods: a teacher who teaches the last period
\* is refused for the middle one only because of the period after it, and is
\* available for the first one
C16_Witness ==
    /\ ~allow_adjacent
    /\ periods_per_day = 3
    /\ \E t \in teachers : \E d \in Days :
          /\ teacher_schedule[t][d][2] # None
          /\ teacher_schedule[t][d][1] = None
          /\ teacher_schedule[t][d][0] = None
          /\ teacher_daily_load[t][d] < max_daily_load
          /\ ~is_teacher_available(St, t, d, 1)
          /\ is_teacher_available(St, t, d, 0)

\* limited mode: a teacher is refused for a free period, below the daily
\* maximum, only because the run would exceed max_consecutive
C16_RunRuleBites ==
    /\ allow_adjacent
    /\ \E t \in teachers : \E d \in Days : \E p \in Periods :
          /\ teacher_schedule[t][d][p] = None
          /\ teacher_daily_load[t][d] < max_daily_load
          /\ ~is_teacher_available(St, t, d, p)

\* C17: the backtracking solver, visiting a slot (c, d, p), leaves it free
\* only if c has no subject below its quota or no teacher is available at
\* (d, p); otherwise it fills the slot with a teacher that was available and a
\* subject that was below its quota.  A slot visited earlier keeps its content
\* up to and including the solver's return, so this is the final result.
C17_BacktrackingFillsWhatItCan ==
    [][pc = "backtrack" =>
         /\ \A x \in visited : timetables'[x[1]][x[2]][x[3]] = timetables[x[1]][x[2]][x[3]]
         /\ \A x \in visited' \ visited :
               LET c == x[1]
                   d == x[2]
                   p == x[3]
                   after == timetables'[c][d][p]
               IN  IF /\ \E s \in subjects : subject_counts[c][s] < subject_periods[s]
                      /\ \E t \in teachers : is_teacher_available(St, t, d, p)
                   THEN /\ after # EmptyCell
                        /\ after[1] \in teachers
                        /\ is_teacher_available(St, after[1], d, p)
                        /\ subject_counts[c][after[2]] < subject_periods[after[2]]
                   ELSE after = EmptyCell
      ]_vars

\* the backtracking solver has returned; a classroom that still lacks a
\* subject has a filled slot and a slot left free
C17_Witness ==
    /\ pc = "done"
    /\ visited = AllSlots
    /\ \E c \in classrooms :
          /\ \E s \in subjects : subject_counts[c][s] < subject_periods[s]
          /\ \E d \in Days : \E p \in Periods : Filled(c, d, p)
          /\ \E d \in Days : \E p \in Periods : ~Filled(c, d, p)

\* C18: the greedy constructor, processing a unit (c, s), appends it to the
\* unresolved list only if no empty cell of c has a teacher for whom
\* is_teacher_available holds; otherwise it leaves the list alone and makes
\* exactly one assignment: an available teacher, with subject s, to one empty
\* cell of c, every other cell keeping its content.
C18_GreedyRecordsOnlyTheInfeasible ==
    [][(pc = "greedy" /\ pc' = "greedy") =>
         \E c \in classrooms : \E s \in subjects :
            /\ pending' = [pending EXCEPT ![c][s] = @ - 1]
            /\ IF \E d \in Days : \E p \in Periods :
                     /\ timetables[c][d][p] = EmptyCell
                     /\ \E t \in teachers : is_teacher_available(St, t, d, p)
               THEN /\ unassigned' = unassigned
                    /\ \E d \in Days : \E p \in Periods : \E t \in teachers :
                          /\ timetables[c][d][p] = EmptyCell
                          /\ is_teacher_available(St, t, d, p)
                          /\ timetables' = [timetables EXCEPT ![c][d][p] = <<t, s>>]
               ELSE /\ unassigned' = Append(unassigned, <<c, s>>)
                    /\ timetables' = timetables
      ]_vars

\* the greedy loop has recorded a unit of a classroom as unresolved although
\* the classroom has an empty cell (no teacher was available for it), after
\* it assigned another unit
C18_Witness ==
    /\ pc = "greedy"
    /\ \E c \in classrooms :
          /\ \E s \in subjects : CountIn(unassigned, <<c, s>>) > 0
          /\ \E d \in Days : \E p \in Periods : ~Filled(c, d, p)
          /\ \E d \in Days : \E p \in Periods : Filled(c, d, p)

\* C19: every run terminates with a result of True or False, having made at
\* most max_attempts greedy+repair attempts, in each repair at most
\* max_swap_attempts outer attempts per unresolved unit, and in each outer
\* attempt at most DonorPrefix donor trials.
C19_RunTerminates ==
    /\ <>(pc = "done" /\ result \in BOOLEAN)
    /\ [](/\ attempt <= max_attempts
          /\ pc \in {"greedy", "repair"} => attempt < max_attempts
          /\ rAttempt < max_swap_attempts
          /\ Cardinality(rTried) < DonorPrefix)

\* the longest kind of run has ended: five failed attempts, the last one
\* with a repair pass, and then the backtracking solver
C19_Witness ==
    /\ pc = "done"
    /\ result \in BOOLEAN
    /\ attempt = max_attempts
    /\ visited = AllSlots
    /\ teachers # {}

\* st2 is st1 except, possibly, at the teacher-grid entry (t, d, p), the
\* cell (c, d, p), the count (c, s) and the load (t, d)
SameExceptAt(st1, st2, t, c, d, p, s) ==
    /\ st2.ts = [st1.ts EXCEPT ![t][d][p] = st2.ts[t][d][p]]
    /\ st2.tt = [st1.tt EXCEPT ![c][d][p] = st2.tt[c][d][p]]
    /\ st2.sc = [st1.sc EXCEPT ![c][s] = st2.sc[c][s]]
    /\ st2.dl = [st1.dl EXCEPT ![t][d] = st2.dl[t][d]]

\* C20: from any state in which the cell (c, d, p) and teacher t's occupancy
\* at (d, p) are empty, assign_teacher_to_slot(t, c, d, p, s) followed by
\* remove_teacher_from_slot(t, c, d, p, s) gives back the starting state in
\* all four structures, and each of the two operations changes only the
\* entries (t, d, p), (c, d, p), (c, s) and (t, d).
C20_AssignRemoveInverse ==
    \A t \in teachers : \A c \in classrooms : \A d \in Days : \A p \in Periods :
        (timetables[c][d][p] = EmptyCell /\ teacher_schedule[t][d][p] = None) =>
            \A s \in subjects :
                LET st1 == assign_teacher_to_slot(St, t, c, d, p, s)
                    st2 == remove_teacher_from_slot(st1, t, c, d, p, s)
                IN  /\ st2 = St
                    /\ st1 # St
                    /\ SameExceptAt(St, st1, t, c, d, p, s)
                    /\ SameExceptAt(st1, st2, t, c, d, p, s)

\* the repair engine has just made a tentative move and taken it back (an
\* insertion followed by the removal of the same assignment), in a state
\* where a teacher with load on a day is free for an empty cell of that day
C20_Witness ==
    /\ lastRelocate = "rollback"
    /\ \E t \in teachers : \E c \in classrooms : \E d \in Days : \E p \in Periods :
          /\ timetables[c][d][p] = EmptyCell
          /\ teacher_schedule[t][d][p] = None
          /\ teacher_daily_load[t][d] > 0

\* the urgency score of a unit of (c, s) evaluated on the empty initial state
InitialUrgency(c, s) == get_subject_priority_score(reset_data_structures, c, s)

\* C21: the greedy constructor processes the units in descending order of
\* their urgency score on the empty initial state: the unit it processes has
\* a score at least as high as every unit still waiting, so of two units with
\* different scores the higher one is processed first, whatever the random
\* perturbation of the sort key.
C21_GreedyDescendingUrgency ==
    [][(pc = "greedy" /\ pc' = "greedy") =>
         \A c \in classrooms : \A s \in subjects :
            pending'[c][s] < pending[c][s] =>
                \A v \in PendingUnits :
                    InitialUrgency(v[1], v[2]) <= InitialUrgency(c, s)
      ]_vars

\* two subjects with different positive quotas: every unit of the larger
\* quota has been processed while units of the smaller one still wait, in a
\* run with two classrooms
C21_Witness ==
    /\ pc = "greedy"
    /\ Cardinality(classrooms) = 2
    /\ \E s1, s2 \in subjects :
          /\ subject_periods[s1] > subject_periods[s2]
          /\ subject_periods[s2] > 0
          /\ InitialUrgency(1, s1) > InitialUrgency(1, s2)
          /\ \A c \in classrooms : pending[c][s1] = 0
          /\ \A c \in classrooms : pending[c][s2] = subject_periods[s2]

\* the slot indices from i up to the end of the list, in order
IndicesFrom(slots, i) == [k \in 1..(Len(slots) - i) |-> i + k - 1]

\* C22: for every starting state, slot list and index i, backtrack_solve
\* returns True, looks at each slot from i to the end exactly once and in
\* list order, and never executes the undo of line 465 (so it never tries a
\* second (teacher, subject) pair at a slot).
C22_BacktrackNeverBacktracks ==
    pc = "solve" =>
        \A slots \in SlotOrders : \A i \in 0..Len(slots) :
            \A o \in backtrack_solve(St, slots, i) :
                /\ o.ret = TRUE
                /\ o.visits = IndicesFrom(slots, i)
                /\ o.undone = 0

\* a call that looked at every slot has returned True although a classroom
\* lacks a subject and has a free cell: the case in which a search that
\* backtracks would have undone an assignment or returned False
C22_Witness ==
    /\ pc = "solved"
    /\ result = TRUE
    /\ visited = AllSlots
    /\ \E c \in classrooms :
          /\ \E s \in subjects : subject_counts[c][s] < subject_periods[s]
          /\ \E d \in Days : \E p \in Periods : ~Filled(c, d, p)
          /\ \E d \in Days : \E p \in Periods : Filled(c, d, p)

\* C23: in hill_climb_timetable the accepted cost never increases and the
\* accepted timetable changes only together with a strictly smaller cost;
\* the cost held (and returned) always is evaluate_cost of the timetable
\* held (and returned); mutate_timetable leaves the timetable passed to it
\* as it was; the loop ends before max_iterations passes only with cost 0.
C23_HillClimbMonotone ==
    /\ [](pc \in {"climb", "returned"} =>
            /\ current_cost = evaluate_cost(current_timetable)
            /\ \A m \in mutate_timetable(current_timetable) : m.arg = current_timetable
            /\ (pc = "returned" /\ iteration < max_iterations) => current_cost = 0)
    /\ [][pc = "climb" =>
            /\ current_cost' <= current_cost
            /\ current_timetable' # current_timetable => current_cost' < current_cost
         ]_vars

\* the climb is under way and the acceptance test matters: one mutation of
\* the accepted timetable is cheaper, another one is dearer
C23_Witness ==
    /\ pc = "climb"
    /\ iteration \in 1..(max_iterations - 1)
    /\ \E m \in mutate_timetable(current_timetable) : evaluate_cost(m.new) < current_cost
    /\ \E m \in mutate_timetable(current_timetable) : evaluate_cost(m.new) > current_cost

\* the loop ran max_iterations times and returned a timetable in which a
\* teacher still teaches twice on a day
C23_ReturnsAfterAllIterations ==
    pc = "returned" /\ iteration = max_iterations /\ current_cost >= 1000

====
